---- MODULE Spec2Model ----
(***************************************************************************)
(* Model of slopnet-mcp: the staged publish pipeline of server.post_slop,  *)
(* the git operations of repo.RepoManager, the identity / graph functions  *)
(* of extraction.py, and the query_slops / update_graph tools.             *)
(*                                                                         *)
(* Text is modelled as a sequence of atoms.  An atom is one character of   *)
(* user text, or one whole literal fragment of an f-string.  "/" and "\n"  *)
(* are always atoms of their own, so split("/") and count("\n") are        *)
(* computed on the sequence and not assumed.                               *)
(***************************************************************************)
EXTENDS Integers, Sequences, FiniteSets, TLC

(* ----------------------------- bounds --------------------------------- *)

\* number of post_slop invocations in one run of the server
MaxPublishes == 2

Publishes == 1..MaxPublishes

(* --------------------------- text helpers ----------------------------- *)

\* str.join of a sequence of texts
RECURSIVE Concat(_)
Concat(parts) ==
    IF parts = <<>> THEN <<>> ELSE Head(parts) \o Concat(Tail(parts))

\* sub in text  (Python's substring test)
Contains(text, sub) ==
    \E i \in 0..(Len(text) - Len(sub)) : SubSeq(text, i + 1, i + Len(sub)) = sub

\* text.startswith(pre)
StartsWith(text, pre) ==
    Len(pre) <= Len(text) /\ SubSeq(text, 1, Len(pre)) = pre

\* text.split(sep): the list of segments between the occurrences of atom sep
RECURSIVE SplitAcc(_, _, _)
SplitAcc(text, sep, cur) ==
    IF text = <<>> THEN <<cur>>
    ELSE IF Head(text) = sep THEN <<cur>> \o SplitAcc(Tail(text), sep, <<>>)
    ELSE SplitAcc(Tail(text), sep, Append(cur, Head(text)))

Split(text, sep) == SplitAcc(text, sep, <<>>)

\* text.count(atom)
RECURSIVE Count(_, _)
Count(text, a) ==
    IF text = <<>> THEN 0
    ELSE (IF Head(text) = a THEN 1 ELSE 0) + Count(Tail(text), a)

\* text[:n]
Take(text, n) == SubSeq(text, 1, IF n < Len(text) THEN n ELSE Len(text))

(* ------------------------- configuration ------------------------------ *)

\* config "github_repo" ("org/repo") and "github_username"
GithubRepo == <<"org", "/", "slops">>
Author == <<"izzy">>

\* config.get_repo_path(): config_dir / github_repo
RepoPath == <<"~", "/", ".slop-at", "/">> \o GithubRepo

(* ---------------------------- slop ids -------------------------------- *)

\* str(uuid.uuid4()): the first atom stands for the first 8 characters of
\* the 36-character string, the second atom for the other 28.
SlopIds == { <<"aaaaaaaa", "-0001">>, <<"aaaaaaaa", "-0002">>, <<"bbbbbbbb", "-0001">> }

NoText == <<>>

\* slop_id[:8]
IdPrefix(slop_id) == SubSeq(slop_id, 1, 1)

\* filename = f"{slop_id[:8]}.md"
Filename(slop_id) == IdPrefix(slop_id) \o <<".md">>

\* file_path = repo_path / filename
FilePath(slop_id) == RepoPath \o <<"/">> \o Filename(slop_id)

\* filepath.relative_to(repo_path)
RelativeTo(path, base) == SubSeq(path, Len(base) + 2, Len(path))

Filenames == { Filename(id) : id \in SlopIds }

(* ------------------- extraction.py: namespaces ------------------------ *)

KNOW == <<"https:", "/", "/", "know.dev", "/">>
SCHEMA == <<"https:", "/", "/", "schema.org", "/">>
NFO == <<"http:", "/", "/", "www.semanticdesktop.org", "/", "ontologies", "/",
         "2007", "/", "03", "/", "22", "/", "nfo#">>
SLOP == <<"https:", "/", "/", "slop.at", "/", "ontology#">>
RDF == <<"http:", "/", "/", "www.w3.org", "/", "1999", "/", "02", "/",
         "22-rdf-syntax-ns#">>
DCTERMS == <<"http:", "/", "/", "purl.org", "/", "dc", "/", "terms", "/">>
XSD == <<"http:", "/", "/", "www.w3.org", "/", "2001", "/", "XMLSchema#">>

(* ------------------- extraction.py: char_to_line ---------------------- *)

\* the mutant: the character at the offset is counted too, text[:char_pos + 1]
char_to_line_inclusive(text, char_pos) ==
    IF char_pos < 0 THEN 1
    ELSE IF char_pos >= Len(text) THEN Count(text, "\n") + 1
    ELSE Count(SubSeq(text, 1, char_pos + 1), "\n") + 1

\* char_to_line(text, char_pos)
char_to_line(text, char_pos) ==
    IF char_pos < 0 THEN 1
    ELSE IF char_pos >= Len(text) THEN Count(text, "\n") + 1
    ELSE Count(SubSeq(text, 1, char_pos), "\n") + 1

(* ------------------ extraction.py: create_entity_uri ------------------ *)

\* str.lower() on one character
LowerChar(c) ==
    CASE c = "A" -> "a"
      [] c = "B" -> "b"
      [] OTHER -> c

\* str.lower()
Lower(text) == [i \in 1..Len(text) |-> LowerChar(text[i])]

\* the characters str.strip() removes
Whitespace == {" ", "\n", "\t"}

\* str.lstrip()
RECURSIVE LStrip(_)
LStrip(text) ==
    IF text # <<>> /\ Head(text) \in Whitespace THEN LStrip(Tail(text)) ELSE text

\* str.rstrip()
RECURSIVE RStrip(_)
RStrip(text) ==
    IF text # <<>> /\ text[Len(text)] \in Whitespace
    THEN RStrip(SubSeq(text, 1, Len(text) - 1))
    ELSE text

\* str.strip()
Strip(text) == RStrip(LStrip(text))

\* str.replace(' ', '-')
ReplaceSpace(text) == [i \in 1..Len(text) |-> IF text[i] = " " THEN "-" ELSE text[i]]

\* the code point of a character, as text.encode() feeds it to the digest
CharCode(c) ==
    CASE c = "a" -> 97
      [] c = "b" -> 98
      [] c = "A" -> 65
      [] c = "B" -> 66
      [] c = " " -> 32
      [] c = "-" -> 45
      [] c = "\n" -> 10
      [] c = "x" -> 120
      [] OTHER -> 63

HexDigits == <<"0", "1", "2", "3", "4", "5", "6", "7",
               "8", "9", "a", "b", "c", "d", "e", "f">>

\* width of hashlib.md5(...).hexdigest()
DigestHexLen == 32

\* position-weighted sum of the code points of text[lo..hi], halving the
\* range so that long texts need little nesting
RECURSIVE DigestSum(_, _, _)
DigestSum(text, lo, hi) ==
    IF lo > hi THEN 0
    ELSE IF lo = hi THEN (CharCode(text[lo]) * (2 * lo + 29)) % 65536
    ELSE LET mid == (lo + hi) \div 2
         IN  (DigestSum(text, lo, mid) + DigestSum(text, mid + 1, hi)) % 65536

\* internal state of the digest stand-in after absorbing the text
DigestState(text, acc) == (acc + 131 * Len(text) + DigestSum(text, 1, Len(text))) % 65536

\* hashlib.md5(data).hexdigest().  MD5 itself is not computed: this is a
\* stand-in with the properties the code relies on, a deterministic function
\* of the bytes with a fixed width of 32 hex digits.  Like MD5 it maps an
\* unbounded domain to a bounded one, so distinct inputs can share a prefix.
Md5Hex(text) ==
    LET w == DigestState(text, 7)
    IN  [i \in 1..DigestHexLen |-> HexDigits[((w * (2 * i - 1) + i) % 16) + 1]]

\* hexdigest()[:8]
HashPrefixLen == 8

\* slug limit, [:50]
SlugMaxLen == 50

EntityBase == <<"https:", "/", "/", "slop.at", "/", "entity", "/">>

\* normalized = text.lower().strip()
Normalized(text) == Strip(Lower(text))

\* hash_val = hashlib.md5(normalized.encode()).hexdigest()[:8]
HashVal(normalized) == Take(Md5Hex(normalized), HashPrefixLen)

\* slug = normalized.replace(' ', '-')[:50]
Slug(normalized) == Take(ReplaceSpace(normalized), SlugMaxLen)

\* the mutant: the text is hashed and slugged without lower-casing
create_entity_uri_nolower(text) ==
    EntityBase \o HashVal(Strip(text)) \o <<"/">> \o Slug(Strip(text))

\* create_entity_uri(text)
create_entity_uri(text) ==
    LET normalized == Normalized(text)
    IN  EntityBase \o HashVal(normalized) \o <<"/">> \o Slug(normalized)

(* ------------------ extraction.py: extract_entities ------------------- *)

\* dict.get(key, default)
Get(d, key, default) == IF key \in DOMAIN d THEN d[key] ELSE default

\* isinstance(entity, dict): a value that is no dict carries this marker
IsDict(v) == "not_a_dict" \notin DOMAIN v

\* one mention of the model's output, as extract_entities records it
Mention(text, label, entity) ==
    LET start_char == Get(entity, "start", 0)
        end_char == Get(entity, "end", 0)
    IN  [text |-> Get(entity, "text", NoText),
         label |-> label,
         start |-> start_char,
         end |-> end_char,
         line_start |-> char_to_line(text, start_char),
         line_end |-> char_to_line(text, end_char),
         score |-> Get(entity, "confidence", Get(entity, "score", 0))]

\* the inner loop of extract_entities over one label's entity_list
RECURSIVE MentionsOfList(_, _, _)
MentionsOfList(text, label, entity_list) ==
    IF entity_list = <<>> THEN <<>>
    ELSE (IF IsDict(Head(entity_list))
          THEN <<Mention(text, label, Head(entity_list))>>
          ELSE <<>>)
         \o MentionsOfList(text, label, Tail(entity_list))

\* the outer loop over results['entities'].items(); an item is
\* [label, is_list, entity_list]
RECURSIVE MentionsOfItems(_, _)
MentionsOfItems(text, items) ==
    IF items = <<>> THEN <<>>
    ELSE (IF Head(items).is_list
          THEN MentionsOfList(text, Head(items).label, Head(items).entity_list)
          ELSE <<>>)
         \o MentionsOfItems(text, Tail(items))

\* extract_entities(text, threshold), given what the model returned
extract_entities(text, results) ==
    IF IsDict(results) /\ "entities" \in DOMAIN results
    THEN MentionsOfItems(text, results["entities"])
    ELSE <<>>

(* ------------------ extraction.py: build_rdf_graph -------------------- *)

Digits == <<"0", "1", "2", "3", "4", "5", "6", "7", "8", "9">>

\* str(n) of a non-negative int
RECURSIVE NatStr(_)
NatStr(n) ==
    IF n < 10 THEN <<Digits[n + 1]>>
    ELSE NatStr(n \div 10) \o <<Digits[(n % 10) + 1]>>

\* str(n) of an int
IntStr(n) == IF n < 0 THEN <<"-">> \o NatStr(0 - n) ELSE NatStr(n)

\* str(x) of a float; the model keeps a confidence as hundredths
FloatStr(h) ==
    LET whole == h \div 100
        frac == h % 100
    IN  NatStr(whole) \o <<".">> \o
        (IF frac % 10 = 0 THEN <<Digits[(frac \div 10) + 1]>>
         ELSE <<Digits[(frac \div 10) + 1], Digits[(frac % 10) + 1]>>)

\* pyoxigraph NamedNode(iri)
NamedNode(iri) == [kind |-> "iri", value |-> iri, datatype |-> NoText]

\* pyoxigraph Literal(value) and Literal(value, datatype=NamedNode(dt))
Literal(value) == [kind |-> "literal", value |-> value, datatype |-> NoText]
TypedLiteral(value, dt) == [kind |-> "literal", value |-> value, datatype |-> dt]

\* pyoxigraph Quad(s, p, o, graph_name)
Quad(s, p, o, g) == [s |-> s, p |-> p, o |-> o, g |-> g]

\* filepath.name
PathName(path) == LET parts == Split(path, "/") IN parts[Len(parts)]

GraphBase == <<"https:", "/", "/", "slop.at", "/", "graph", "/">>

\* repo_name = github_url.split("/")[4] if len(github_url.split("/")) > 4 else "slop"
RepoNameOf(github_url) ==
    LET parts == Split(github_url, "/")
    IN  IF Len(parts) > 4 THEN parts[5] ELSE <<"slop">>

\* the mutant: one graph per author and repository, the slop id left out
GraphUriNoSlopId(github_url, metadata) ==
    GraphBase \o Get(metadata, "author", <<"unknown">>) \o <<"/">>
              \o RepoNameOf(github_url)

\* graph_uri = f"https://slop.at/graph/{author}/{repo_name}/{slop_id}"
GraphUri(github_url, metadata) ==
    GraphBase \o Get(metadata, "author", <<"unknown">>) \o <<"/">>
              \o RepoNameOf(github_url) \o <<"/">>
              \o Get(metadata, "slop_id", <<"unknown">>)

\* add_quad(s, p, o) of build_rdf_graph, with the closure's graph_node
add_quad(s, p, o, graph_node) == Quad(s, p, o, graph_node)

\* one dcterms:subject statement per tag
RECURSIVE TagQuads(_, _, _)
TagQuads(tags, file_uri, g) ==
    IF tags = <<>> THEN <<>>
    ELSE <<add_quad(file_uri, NamedNode(DCTERMS \o <<"subject">>), Literal(Head(tags)), g)>>
         \o TagQuads(Tail(tags), file_uri, g)

\* "File metadata" and "Frontmatter metadata" of build_rdf_graph
MetadataQuads(filepath, github_url, metadata, g) ==
    LET file_uri == NamedNode(github_url)
        Q(p, o) == add_quad(file_uri, p, o, g)
    IN  << Q(NamedNode(RDF \o <<"type">>), NamedNode(NFO \o <<"FileDataObject">>)),
           Q(NamedNode(RDF \o <<"type">>), NamedNode(SLOP \o <<"Slop">>)),
           Q(NamedNode(NFO \o <<"fileName">>), Literal(PathName(filepath))),
           Q(NamedNode(NFO \o <<"fileUrl">>), NamedNode(github_url)) >>
        \o (IF "title" \in DOMAIN metadata
            THEN <<Q(NamedNode(DCTERMS \o <<"title">>), Literal(metadata["title"]))>>
            ELSE <<>>)
        \o (IF "author" \in DOMAIN metadata
            THEN <<Q(NamedNode(DCTERMS \o <<"creator">>), Literal(metadata["author"]))>>
            ELSE <<>>)
        \o (IF "created" \in DOMAIN metadata
            THEN <<Q(NamedNode(DCTERMS \o <<"created">>), Literal(metadata["created"]))>>
            ELSE <<>>)
        \o (IF "tags" \in DOMAIN metadata
            THEN TagQuads(metadata["tags"], file_uri, g)
            ELSE <<>>)
        \o (IF "slop_id" \in DOMAIN metadata
            THEN <<Q(NamedNode(SLOP \o <<"slopId">>), Literal(metadata["slop_id"]))>>
            ELSE <<>>)
        \o (IF "familiar" \in DOMAIN metadata
            THEN <<Q(NamedNode(SLOP \o <<"familiar">>), Literal(metadata["familiar"]))>>
            ELSE <<>>)

\* the body of "for entity in entities" for one entity
EntityQuads(entity, github_url, g) ==
    LET file_uri == NamedNode(github_url)
        entity_uri == NamedNode(create_entity_uri(entity["text"]))
        entity_type == NamedNode(KNOW \o entity["label"])
        Q(s, p, o) == add_quad(s, p, o, g)
    IN  << Q(entity_uri, NamedNode(RDF \o <<"type">>), entity_type),
           Q(entity_uri, NamedNode(SCHEMA \o <<"name">>), Literal(entity["text"])),
           Q(file_uri, NamedNode(SLOP \o <<"mentions">>), entity_uri),
           Q(entity_uri, NamedNode(SLOP \o <<"confidence">>),
             TypedLiteral(FloatStr(entity["score"]), XSD \o <<"float">>)) >>
        \o (IF "line_start" \in DOMAIN entity
            THEN <<Q(entity_uri, NamedNode(SLOP \o <<"lineStart">>),
                     TypedLiteral(IntStr(entity["line_start"]), XSD \o <<"integer">>))>>
            ELSE <<>>)
        \o (IF "line_end" \in DOMAIN entity
            THEN <<Q(entity_uri, NamedNode(SLOP \o <<"lineEnd">>),
                     TypedLiteral(IntStr(entity["line_end"]), XSD \o <<"integer">>))>>
            ELSE <<>>)
        \o (IF "line_start" \in DOMAIN entity /\ "line_end" \in DOMAIN entity
            THEN LET line_start == entity["line_start"]
                     line_end == entity["line_end"]
                     entity_url ==
                         IF line_start = line_end
                         THEN github_url \o <<"#L">> \o IntStr(line_start)
                         ELSE github_url \o <<"#L">> \o IntStr(line_start)
                                         \o <<"-L">> \o IntStr(line_end)
                 IN  <<Q(entity_uri, NamedNode(SLOP \o <<"sourceUrl">>), NamedNode(entity_url))>>
            ELSE <<>>)

\* the mutant: the entities are taken from the last to the first
RECURSIVE EntitiesQuadsReversed(_, _, _)
EntitiesQuadsReversed(entities, github_url, g) ==
    IF entities = <<>> THEN <<>>
    ELSE EntitiesQuadsReversed(Tail(entities), github_url, g)
         \o EntityQuads(Head(entities), github_url, g)

\* the loop "for entity in entities"
RECURSIVE EntitiesQuads(_, _, _)
EntitiesQuads(entities, github_url, g) ==
    IF entities = <<>> THEN <<>>
    ELSE EntityQuads(Head(entities), github_url, g)
         \o EntitiesQuads(Tail(entities), github_url, g)

\* build_rdf_graph(filepath, github_url, entities, metadata) -> (quads, graph_uri)
build_rdf_graph(filepath, github_url, entities, metadata) ==
    LET graph_uri == GraphUri(github_url, metadata)
        graph_node == NamedNode(graph_uri)
    IN  [quads |-> MetadataQuads(filepath, github_url, metadata, graph_node)
                   \o EntitiesQuads(entities, github_url, graph_node),
         graph_uri |-> graph_uri]

(* ---------------------- server.py: post_slop inputs ------------------- *)

\* the title and content arguments of post_slop, and datetime.now().isoformat()
Title == <<"T">>
Content == <<"A", " ", "m", "e", "t", "\n", "b">>
Timestamp == <<"2026-01-01T00:00:00">>

\* the tags argument: None (the empty value here) or a list of tags
TagInputs == { <<>> }

\* tags = tags or ["slop"]
TagsOrDefault(t) == IF t = <<>> THEN << <<"slop">> >> ELSE t

\* ', '.join(tags)
RECURSIVE Join(_, _)
Join(items, sep) ==
    IF items = <<>> THEN <<>>
    ELSE IF Len(items) = 1 THEN Head(items)
    ELSE Head(items) \o sep \o Join(Tail(items), sep)

\* frontmatter + content
FullContent(title, author, timestamp, tgs, id, content) ==
    <<"---", "\n", "title: ">> \o title \o
    <<"\n", "author: ">> \o author \o
    <<"\n", "created: ">> \o timestamp \o
    <<"\n", "tags: [">> \o Join(tgs, <<", ">>) \o
    <<"]", "\n", "slop_id: ">> \o id \o
    <<"\n", "---", "\n", "\n">> \o content

\* metadata = {"title", "author", "created", "tags", "slop_id"}
Metadata(title, author, timestamp, tgs, id) ==
    [title |-> title, author |-> author, created |-> timestamp,
     tags |-> tgs, slop_id |-> id]

\* what model.extract_entities returns for the content: one Person mention
\* on the first content line
NerOutputs ==
    { [entities |-> << [label |-> <<"Person">>, is_list |-> TRUE,
                        entity_list |-> << [text |-> <<"A">>, start |-> 22,
                                            end |-> 23, confidence |-> 90] >>] >>] }

\* get_graph_server_url()
GraphServer == <<"https:", "/", "/", "slop.at">>

(* ------------------------------ state --------------------------------- *)

VARIABLES
    repo,        \* "unconfigured", "uncloned" (configured, path missing) or "ready"
    loop,        \* the publish the event loop is running, 0 when it is free
    pc,          \* pc[p]: where publish p stands in post_slop
    slop_id,     \* slop_id[p]
    tags,        \* tags[p]
    github_url,  \* github_url[p]
    git_msg,     \* git_msg[p]
    entities,    \* entities[p]
    payload,     \* ntriples[p], the statements handed to the store
    result,      \* what the tool call of p ended with
    trace,       \* trace[p]: the external operations p performed, with outcome
    files,       \* working tree of the local repository: filename -> content
    staged,      \* git index: filename -> staged content
    commits,     \* local branch: sequence of commits
    pushed,      \* number of commits of the branch the remote has
    store,       \* remote triple store: set of statement lists inserted
    call         \* last call of a pure function: its arguments and result

pipeVars == <<repo, loop, pc, slop_id, tags, github_url, git_msg, entities,
              payload, result, trace, files, staged, commits, pushed, store>>

vars == <<repo, loop, pc, slop_id, tags, github_url, git_msg, entities,
          payload, result, trace, files, staged, commits, pushed, store, call>>

NoResult == [kind |-> "none", text |-> NoText]
NoCall == [fn |-> "none"]

\* a tool call that returns text, and one that ends with an exception
Returned(text) == [kind |-> "returned", text |-> text]
Raised(exc) == [kind |-> "raised", text |-> <<exc>>]

\* full_content and metadata of publish p
FullContentOf(p) ==
    FullContent(Title, Author, Timestamp, tags[p], slop_id[p], Content)
MetadataOf(p) == Metadata(Title, Author, Timestamp, tags[p], slop_id[p])

\* the hash git gives the n-th commit of the branch
CommitHash(n) == <<"c">> \o NatStr(n)

\* publish p performed external operation op, which ended with out
Step(p, op, out) == [trace EXCEPT ![p] = Append(@, [op |-> op, out |-> out])]

\* the pending operation of publish p ended with out
StepDone(p, out) == [trace EXCEPT ![p] = [@ EXCEPT ![Len(trace[p])].out = out]]

PipeInit ==
    /\ repo \in {"unconfigured", "uncloned", "ready"}
    /\ loop = 0
    /\ pc = [p \in Publishes |-> "idle"]
    /\ slop_id = [p \in Publishes |-> NoText]
    /\ tags = [p \in Publishes |-> <<>>]
    /\ github_url = [p \in Publishes |-> NoText]
    /\ git_msg = [p \in Publishes |-> NoText]
    /\ entities = [p \in Publishes |-> <<>>]
    /\ payload = [p \in Publishes |-> <<>>]
    /\ result = [p \in Publishes |-> NoResult]
    /\ trace = [p \in Publishes |-> <<>>]
    /\ files = [f \in Filenames |-> NoText]
    /\ staged = [f \in Filenames |-> NoText]
    /\ commits = <<>>
    /\ pushed = 0
    /\ store = {}

Init == PipeInit /\ call = NoCall

(* ------------------- repo.py: clone_repo (setup tool) ----------------- *)

\* setup_slop_repo(github_repo) -> clone_repo.  A call that finds the path
\* present, or whose git clone fails, returns an error text and changes
\* nothing; the call modelled is the one whose clone succeeds.
SetupRepo ==
    /\ loop = 0
    /\ repo # "ready"
    /\ repo' = "ready"
    /\ UNCHANGED <<loop, pc, slop_id, tags, github_url, git_msg, entities, payload,
                   result, trace, files, staged, commits, pushed, store, call>>

(* ------------------------ server.py: post_slop ------------------------ *)

\* ensure_repo_exists()
EnsureRepoExists ==
    IF repo = "unconfigured"
    THEN [ok |-> FALSE, message |-> <<"No slop repo found!">>]
    ELSE IF repo = "uncloned"
    THEN [ok |-> FALSE,
          message |-> <<"Repo configured but not cloned: ">> \o GithubRepo]
    ELSE [ok |-> TRUE, message |-> <<"Slop repo ready at ">> \o RepoPath]

\* post_slop lines 41-66: the repo check, then the id and the frontmatter
Start(p) ==
    /\ pc[p] = "idle"
    /\ \A q \in Publishes : q < p => pc[q] # "idle"
    /\ loop = 0
    /\ LET r == EnsureRepoExists
       IN  IF ~r.ok
           THEN /\ result' = [result EXCEPT ![p] = Returned(r.message)]
                /\ pc' = [pc EXCEPT ![p] = "done"]
                /\ trace' = Step(p, "ensure_repo_exists", "not_ready")
                /\ UNCHANGED <<loop, slop_id, tags>>
           ELSE /\ \E id \in SlopIds \ {slop_id[q] : q \in Publishes}, t \in TagInputs :
                      /\ slop_id' = [slop_id EXCEPT ![p] = id]
                      /\ tags' = [tags EXCEPT ![p] = TagsOrDefault(t)]
                /\ pc' = [pc EXCEPT ![p] = "write"]
                /\ loop' = p
                /\ trace' = Step(p, "ensure_repo_exists", "ok")
                /\ UNCHANGED result
    /\ UNCHANGED <<repo, github_url, git_msg, entities, payload,
                   files, staged, commits, pushed, store, call>>

\* the publish p returns text and its task ends
Finish(p, op, out, res) ==
    /\ trace' = Step(p, op, out)
    /\ result' = [result EXCEPT ![p] = res]
    /\ pc' = [pc EXCEPT ![p] = "done"]
    /\ loop' = 0

\* post_slop lines 68-75: file_path.write_text(full_content)
WriteFile(p) ==
    /\ pc[p] = "write"
    /\ loop = p
    /\ \/ /\ files' = [files EXCEPT ![Filename(slop_id[p])] = FullContentOf(p)]
          /\ trace' = Step(p, "write_text", "ok")
          /\ pc' = [pc EXCEPT ![p] = "add"]
          /\ UNCHANGED <<loop, result>>
       \/ /\ Finish(p, "write_text", "OSError",
                    Returned(<<"Failed to write slop file: ">> \o <<"No space left on device">>))
          /\ UNCHANGED files
    /\ UNCHANGED <<repo, slop_id, tags, github_url, git_msg, entities, payload,
                   staged, commits, pushed, store, call>>

(* ---------------------- repo.py: commit_and_push ---------------------- *)

\* the mutant: a failed git step is ignored and the publish goes on
GitFailedContinue(p, op) ==
    /\ trace' = Step(p, op, "CalledProcessError")
    /\ git_msg' = [git_msg EXCEPT ![p] = <<"Git operation failed: ">> \o <<"stderr">>]
    /\ pc' = [pc EXCEPT ![p] = "url"]
    /\ UNCHANGED <<loop, result, files, staged, commits, pushed>>

\* the mutant: a failed git step removes the file the publish wrote
GitFailedRollback(p, op) ==
    /\ Finish(p, op, "CalledProcessError",
              Returned(<<"Git operation failed: ">> \o <<"Git operation failed: ">> \o <<"stderr">>))
    /\ git_msg' = [git_msg EXCEPT ![p] = <<"Git operation failed: ">> \o <<"stderr">>]
    /\ files' = [files EXCEPT ![Filename(slop_id[p])] = NoText]
    /\ UNCHANGED <<staged, commits, pushed>>

\* the mutant: a failed git step is tried again
GitFailedRetry(p, op) ==
    /\ Len(trace[p]) < 8
    /\ trace' = Step(p, op, "CalledProcessError")
    /\ UNCHANGED <<loop, pc, result, git_msg, files, staged, commits, pushed>>

\* repo.py lines 125-126 and server.py lines 80-81: CalledProcessError of a
\* git step becomes (False, msg) and post_slop returns the git failure
GitFailed(p, op) ==
    /\ Finish(p, op, "CalledProcessError",
              Returned(<<"Git operation failed: ">> \o <<"Git operation failed: ">> \o <<"stderr">>))
    /\ git_msg' = [git_msg EXCEPT ![p] = <<"Git operation failed: ">> \o <<"stderr">>]
    /\ UNCHANGED <<files, staged, commits, pushed>>

\* subprocess.run cannot start git: FileNotFoundError is caught neither by
\* commit_and_push nor by post_slop
GitRaised(p, op) ==
    /\ Finish(p, op, "FileNotFoundError", Raised("FileNotFoundError"))
    /\ UNCHANGED <<git_msg, files, staged, commits, pushed>>

\* git add <relative path>
GitAdd(p) ==
    /\ pc[p] = "add"
    /\ loop = p
    /\ \/ /\ LET rel == RelativeTo(FilePath(slop_id[p]), RepoPath)
             IN  staged' = [staged EXCEPT ![rel] = files[rel]]
          /\ trace' = Step(p, "git add", "ok")
          /\ pc' = [pc EXCEPT ![p] = "commit"]
          /\ UNCHANGED <<loop, result, git_msg, files, commits, pushed>>
       \/ GitFailed(p, "git add")
       \/ GitRaised(p, "git add")
    /\ UNCHANGED <<repo, slop_id, tags, github_url, entities, payload, store, call>>

\* git commit -m message: commits everything the index holds
GitCommit(p) ==
    /\ pc[p] = "commit"
    /\ loop = p
    /\ \/ /\ commits' = Append(commits, [hash |-> CommitHash(Len(commits) + 1),
                                         tree |-> staged, by |-> p])
          /\ staged' = [f \in Filenames |-> NoText]
          /\ trace' = Step(p, "git commit", "ok")
          /\ pc' = [pc EXCEPT ![p] = "push"]
          /\ UNCHANGED <<loop, result, git_msg, files, pushed>>
       \/ GitFailed(p, "git commit")
       \/ GitRaised(p, "git commit")
    /\ UNCHANGED <<repo, slop_id, tags, github_url, entities, payload, store, call>>

\* git push: sends every commit the remote lacks
GitPush(p) ==
    /\ pc[p] = "push"
    /\ loop = p
    /\ \/ /\ pushed' = Len(commits)
          /\ git_msg' = [git_msg EXCEPT ![p] =
                            <<"Committed and pushed: ">> \o <<"slop: ">> \o Title]
          /\ trace' = Step(p, "git push", "ok")
          /\ pc' = [pc EXCEPT ![p] = "url"]
          /\ UNCHANGED <<loop, result, files, staged, commits>>
       \/ GitFailed(p, "git push")
       \/ GitRaised(p, "git push")
    /\ UNCHANGED <<repo, slop_id, tags, github_url, entities, payload, store, call>>

(* -------------------- repo.py: get_file_github_url -------------------- *)

GithubBase == <<"https:", "/", "/", "github.com", "/">>

\* f"https://github.com/{repo}/blob/{commit_hash}/{rel_path}"
BlobUrl(repo_coords, ref, rel_path) ==
    GithubBase \o repo_coords \o <<"/", "blob", "/">> \o ref \o <<"/">> \o rel_path

\* git rev-parse HEAD in the local repository: the hash of the last commit
HeadHash == commits[Len(commits)].hash

\* get_file_github_url(filepath), given how git rev-parse HEAD ended:
\* the URL at the HEAD commit, or None (no text) on CalledProcessError
get_file_github_url(filepath, out) ==
    IF out = "ok"
    THEN BlobUrl(GithubRepo, HeadHash, RelativeTo(filepath, RepoPath))
    ELSE NoText

\* post_slop line 86: the URL used when get_file_github_url returned None
FallbackUrl(filename) == BlobUrl(GithubRepo, <<"main">>, filename)

\* post_slop lines 83-86
UrlLookup(p) ==
    /\ pc[p] = "url"
    /\ loop = p
    /\ \/ \E out \in {"ok", "CalledProcessError"} :
            LET url == get_file_github_url(FilePath(slop_id[p]), out)
            IN  /\ github_url' = [github_url EXCEPT ![p] =
                                     IF url = NoText THEN FallbackUrl(Filename(slop_id[p]))
                                     ELSE url]
                /\ trace' = Step(p, "git rev-parse", out)
                /\ pc' = [pc EXCEPT ![p] = "extract"]
                /\ UNCHANGED <<loop, result>>
       \/ /\ Finish(p, "git rev-parse", "FileNotFoundError", Raised("FileNotFoundError"))
          /\ UNCHANGED github_url
    /\ UNCHANGED <<repo, slop_id, tags, git_msg, entities, payload,
                   files, staged, commits, pushed, store, call>>

(* ------------------ server.py: extraction, graph, sync ---------------- *)

\* the tail every "Slop posted but ..." result carries: \n{git_msg}\n {github_url}
PostedTail(p) == <<"\n">> \o git_msg[p] \o <<"\n", "File: ">> \o github_url[p]

\* post_slop lines 88-92: extract_entities(full_content, threshold=0.5)
Extract(p) ==
    /\ pc[p] = "extract"
    /\ loop = p
    /\ \/ /\ \E r \in NerOutputs :
                entities' = [entities EXCEPT ![p] = extract_entities(FullContentOf(p), r)]
          /\ trace' = Step(p, "extract_entities", "ok")
          /\ pc' = [pc EXCEPT ![p] = "build"]
          /\ UNCHANGED <<loop, result>>
       \/ /\ Finish(p, "extract_entities", "Exception",
                    Returned(<<"Slop posted but extraction failed: ">> \o <<"model error">>
                             \o PostedTail(p)))
          /\ UNCHANGED entities
    /\ UNCHANGED <<repo, slop_id, tags, github_url, git_msg, payload,
                   files, staged, commits, pushed, store, call>>

\* graph_to_ntriples(graph): server.py imports it from extraction, which does
\* not define it; the statements are kept as the list build_rdf_graph made
graph_to_ntriples(graph) == graph.quads

\* post_slop lines 94-107: build_rdf_graph, then graph_to_ntriples
Build(p) ==
    /\ pc[p] = "build"
    /\ loop = p
    /\ \/ /\ LET graph == build_rdf_graph(FilePath(slop_id[p]), github_url[p],
                                          entities[p], MetadataOf(p))
             IN  payload' = [payload EXCEPT ![p] = graph_to_ntriples(graph)]
          /\ trace' = Step(p, "build_rdf_graph", "ok")
          /\ pc' = [pc EXCEPT ![p] = "sync"]
          /\ UNCHANGED <<loop, result>>
       \/ /\ Finish(p, "build_rdf_graph", "Exception",
                    Returned(<<"Slop posted but RDF building failed: ">> \o <<"invalid IRI">>
                             \o PostedTail(p)))
          /\ UNCHANGED payload
    /\ UNCHANGED <<repo, slop_id, tags, github_url, git_msg, entities,
                   files, staged, commits, pushed, store, call>>

\* post_slop lines 109-119: the update request is sent and the task awaits
\* the response; the event loop is free for other tool calls meanwhile
SyncSend(p) ==
    /\ pc[p] = "sync"
    /\ loop = p
    /\ trace' = Step(p, "http post", "pending")
    /\ pc' = [pc EXCEPT ![p] = "await"]
    /\ loop' = 0
    /\ UNCHANGED <<repo, slop_id, tags, github_url, git_msg, entities, payload,
                   result, files, staged, commits, pushed, store, call>>

\* str(e) of the exception client.post / raise_for_status can raise, by kind
ExcStr(kind) ==
    CASE kind = "timeout" -> { <<>> }
      [] kind = "status" -> { <<"Server error '500 Internal Server Error'">> }
      [] kind = "transport" -> { <<>>, <<"All connection attempts failed">> }

SyncFailureKinds == {"timeout", "status", "transport"}

\* post_slop lines 121-122: except Exception as e
SyncFailed(p, kind, msg) ==
    Returned(<<"Slop posted but graph update failed: ">> \o msg \o PostedTail(p))

\* post_slop lines 124-131
Success(p) ==
    Returned(<<"Slop posted successfully!", "\n", "\n", "File: ">> \o github_url[p]
             \o <<"\n", "Extracted ">> \o NatStr(Len(entities[p])) \o <<" entities">>
             \o <<"\n", "Published to ">> \o GraphServer
             \o <<"\n", "Slop ID: ">> \o IdPrefix(slop_id[p]))

\* the response (or the failure) arrives and post_slop runs to its return
SyncRecv(p) ==
    /\ pc[p] = "await"
    /\ loop = 0
    /\ pc' = [pc EXCEPT ![p] = "done"]
    /\ \/ /\ trace' = StepDone(p, "2xx")
          /\ result' = [result EXCEPT ![p] = Success(p)]
          /\ store' = store \cup {payload[p]}
       \/ \E kind \in SyncFailureKinds : \E msg \in ExcStr(kind) :
             /\ trace' = StepDone(p, kind)
             /\ result' = [result EXCEPT ![p] = SyncFailed(p, kind, msg)]
             /\ store' = store
    /\ UNCHANGED <<repo, loop, slop_id, tags, github_url, git_msg, entities,
                   payload, files, staged, commits, pushed, call>>

PipeNext ==
    \/ SetupRepo
    \/ \E p \in Publishes :
          \/ Start(p)
          \/ WriteFile(p)
          \/ GitAdd(p)
          \/ GitCommit(p)
          \/ GitPush(p)
          \/ UrlLookup(p)
          \/ Extract(p)
          \/ Build(p)
          \/ SyncSend(p)
          \/ SyncRecv(p)

Next == PipeNext

Spec == Init /\ [][Next]_vars

(* ------------------- calls of the pure functions ---------------------- *)

\* longest entity text drawn, not counting the long stem
MaxTextLen == 2

Chars == {"A", "a", "b", " ", "-"}

ShortTexts == UNION { [1..n -> Chars] : n \in 0..MaxTextLen }

\* a text as long as the slug limit, so that what follows it is cut off
LongStem == [i \in 1..SlugMaxLen |-> "x"]

Texts == ShortTexts \cup { LongStem \o t : t \in ShortTexts }

\* create_entity_uri is applied to two texts
CallCreateEntityUri ==
    /\ call = NoCall
    /\ \E a \in Texts, b \in Texts :
          call' = [fn |-> "create_entity_uri", a |-> a, b |-> b,
                   uri_a |-> create_entity_uri(a), uri_b |-> create_entity_uri(b)]
    /\ UNCHANGED pipeVars

\* the document URLs post_slop can hand to build_rdf_graph
RepoCoords == { <<"org", "/", "slops">>, <<"me", "/", "notes">> }
Refs == { CommitHash(1), <<"main">> }

\* metadata dicts: the one post_slop builds, and dicts lacking some keys
Metadatas ==
    { Metadata(Title, Author, Timestamp, << <<"slop">> >>, id) : id \in SlopIds }
    \cup { [title |-> Title, slop_id |-> <<"aaaaaaaa", "-0001">>],
           [author |-> Author, tags |-> << <<"ai">>, <<"kg">> >>] }

\* entity records: as extract_entities makes them, and with bounds left out
EntityAlice == [text |-> <<"A">>, label |-> <<"Person">>, start |-> 0, end |-> 1,
                line_start |-> 9, line_end |-> 9, score |-> 90]
EntityBob == [text |-> <<"b">>, label |-> <<"Person">>, start |-> 6, end |-> 7,
              line_start |-> 9, line_end |-> 10, score |-> 85]
EntityNoLines == [text |-> <<"a", " ", "b">>, label |-> <<"Organization">>, score |-> 80]

\* entity records that carry one of the two line bounds only
EntityStartOnly == [text |-> <<"b", "a">>, label |-> <<"Place">>, score |-> 70,
                    line_start |-> 3]
EntityEndOnly == [text |-> <<"a", "a">>, label |-> <<"Place">>, score |-> 60,
                  line_end |-> 4]

\* two entity records whose texts agree on the first 50 characters
EntityLongA == [text |-> LongStem \o <<"a">>, label |-> <<"Organization">>,
                score |-> 80, line_start |-> 9, line_end |-> 9]
EntityLongB == [text |-> LongStem \o <<"b", "b">>, label |-> <<"Organization">>,
                score |-> 75, line_start |-> 10, line_end |-> 10]

EntityLists ==
    { <<>>, <<EntityAlice>>, <<EntityAlice, EntityBob>>,
      <<EntityBob, EntityNoLines>>, <<EntityAlice, EntityBob, EntityNoLines>>,
      <<EntityStartOnly>>, <<EntityAlice, EntityEndOnly>>,
      <<EntityLongA, EntityLongB>> }

\* build_rdf_graph is applied to one document
CallBuildRdfGraph ==
    /\ call = NoCall
    /\ \E rc \in RepoCoords, ref \in Refs, id \in SlopIds,
          md \in Metadatas, ents \in EntityLists :
          LET url == BlobUrl(rc, ref, Filename(id))
          IN  call' = [fn |-> "build_rdf_graph", repo_coords |-> rc,
                       github_url |-> url, metadata |-> md, entities |-> ents,
                       out |-> build_rdf_graph(FilePath(id), url, ents, md)]
    /\ UNCHANGED pipeVars

\* longest text char_to_line is applied to
MaxLineTextLen == 3

LineChars == {"a", "\n"}

LineTexts == UNION { [1..n -> LineChars] : n \in 0..MaxLineTextLen }

\* char_to_line is applied to a text and an offset, from below 0 to beyond
\* the end of the text; the call records the line of the offset, of the next
\* offset, of offset 0 and of offset len(text)
CallCharToLine ==
    /\ call = NoCall
    /\ \E text \in LineTexts : \E char_pos \in (0 - 2)..(Len(text) + 2) :
          call' = [fn |-> "char_to_line", text |-> text, char_pos |-> char_pos,
                   line |-> char_to_line(text, char_pos),
                   line_next |-> char_to_line(text, char_pos + 1),
                   line_zero |-> char_to_line(text, 0),
                   line_len |-> char_to_line(text, Len(text))]
    /\ UNCHANGED pipeVars

\* entity dicts the NER model can put into an entity_list: with both
\* offsets, with one or both left out, with "score" in place of "confidence"
NerEntities ==
    { [text |-> <<"b">>, start |-> 6, end |-> 7, confidence |-> 85],
      [text |-> <<"A">>, start |-> 0, end |-> 1, score |-> 90],
      [text |-> <<"b">>, start |-> 6, confidence |-> 85],
      [text |-> <<"b">>, end |-> 7, confidence |-> 85],
      [text |-> <<"A">>, confidence |-> 90],
      [not_a_dict |-> TRUE] }

\* what model.extract_entities can return around one entity: the documented
\* dict of label -> list, a label whose value is no list, a dict without
\* 'entities', and a value that is no dict
NerResultsOf(entity) ==
    { [entities |-> << [label |-> <<"Person">>, is_list |-> TRUE,
                        entity_list |-> <<entity>>] >>],
      [entities |-> << [label |-> <<"Person">>, is_list |-> TRUE,
                        entity_list |-> <<entity, entity>>] >>],
      [entities |-> << [label |-> <<"Person">>, is_list |-> FALSE,
                        entity_list |-> <<entity>>] >>],
      [relations |-> <<>>],
      [not_a_dict |-> TRUE] }

\* extract_entities is applied to the two-line content, the NER model
\* returning one of the results above
CallExtractEntities ==
    /\ call = NoCall
    /\ \E entity \in NerEntities : \E results \in NerResultsOf(entity) :
          call' = [fn |-> "extract_entities", text |-> Content, entity |-> entity,
                   results |-> results, out |-> extract_entities(Content, results)]
    /\ UNCHANGED pipeVars

FnInit ==
    /\ repo = "ready"
    /\ loop = 0
    /\ pc = [p \in Publishes |-> "idle"]
    /\ slop_id = [p \in Publishes |-> NoText]
    /\ tags = [p \in Publishes |-> <<>>]
    /\ github_url = [p \in Publishes |-> NoText]
    /\ git_msg = [p \in Publishes |-> NoText]
    /\ entities = [p \in Publishes |-> <<>>]
    /\ payload = [p \in Publishes |-> <<>>]
    /\ result = [p \in Publishes |-> NoResult]
    /\ trace = [p \in Publishes |-> <<>>]
    /\ files = [f \in Filenames |-> NoText]
    /\ staged = [f \in Filenames |-> NoText]
    /\ commits = <<>>
    /\ pushed = 0
    /\ store = {}
    /\ call = NoCall

FnNext ==
    \/ CallCreateEntityUri
    \/ CallBuildRdfGraph
    \/ CallCharToLine
    \/ CallExtractEntities

SpecFn == FnInit /\ [][FnNext]_vars

(* ------------- server.py: query_slops and update_graph ---------------- *)

\* number of query / update tool calls in one run
MaxToolCalls == 2

\* the sparql_query and sparql_update arguments
Queries == { <<"SELECT * WHERE { ?s ?p ?o } LIMIT 1">>, <<"ASK { ?s ?p ?o }">> }
Updates == { <<"INSERT DATA { <s> <p> <o> }">>, <<"DELETE WHERE { ?s ?p ?o }">> }

\* binding rows of a SPARQL results document: variable s bound to a value
RowS == [s |-> <<"http:", "/", "/", "example.com", "/", "s">>]
RowT == [s |-> <<"http:", "/", "/", "example.com", "/", "t">>]

\* bodies a 2xx response can carry.  json tells whether response.json()
\* parses the body; value is what it returns: an object with
\* results.bindings, an object without "results" (the answer to ASK), an
\* object whose "results" is no object, or a JSON array
ResponseBodies ==
    { [json |-> TRUE, value |-> [results |-> [bindings |-> <<RowS>>]]],
      [json |-> TRUE, value |-> [results |-> [bindings |-> <<RowS, RowT>>]]],
      [json |-> TRUE, value |-> [results |-> [bindings |-> <<>>]]],
      [json |-> TRUE, value |-> [results |-> [vars |-> <<>>]]],
      [json |-> TRUE, value |-> [boolean |-> TRUE]],
      [json |-> TRUE, value |-> [results |-> [not_a_dict |-> TRUE]]],
      [json |-> TRUE, value |-> [not_a_dict |-> TRUE]],
      [json |-> FALSE, value |-> <<>>] }

NoBody == [json |-> FALSE, value |-> <<>>]

\* repr of one binding row, as str(results) prints a dict
RowStr(row) == <<"{'s': {'value': '">> \o row.s \o <<"'}}">>

\* str(results) of a list of binding rows
RECURSIVE RowsStr(_)
RowsStr(rows) ==
    IF rows = <<>> THEN <<>>
    ELSE IF Len(rows) = 1 THEN RowStr(Head(rows))
    ELSE RowStr(Head(rows)) \o <<", ">> \o RowsStr(Tail(rows))

StrOfList(rows) == <<"[">> \o RowsStr(rows) \o <<"]">>

\* str(response.json()) of a results document: the rows inside the envelope
StrOfDocument(rows) ==
    <<"{'", "results", "': {'", "bindings", "': ">> \o StrOfList(rows) \o <<"}}">>

\* query_slops line 200 and update_graph line 222: except Exception as e
ToolFailed(tool, kind, msg) == Returned(<<tool, " failed: ">> \o msg)

\* the mutant: the rows are returned inside the envelope, str(response.json())
QueryRowsWithEnvelope(results) == Returned(StrOfDocument(results))

\* query_slops lines 195-198
QueryRows(results) ==
    IF results = <<>> THEN Returned(<<"No results found.">>)
    ELSE Returned(StrOfList(results))

\* query_slops lines 193-200 on a 2xx response:
\* response.json().get("results", {}).get("bindings", [])
QueryParsed(body) ==
    IF ~body.json
    THEN ToolFailed("Query", "JSONDecodeError",
                    <<"Expecting value: line 1 column 1 (char 0)">>)
    ELSE IF ~IsDict(body.value)
    THEN ToolFailed("Query", "AttributeError", <<"'list' object has no attribute 'get'">>)
    ELSE IF ~IsDict(Get(body.value, "results", <<>>))
    THEN ToolFailed("Query", "AttributeError", <<"'list' object has no attribute 'get'">>)
    ELSE QueryRows(Get(Get(body.value, "results", <<>>), "bindings", <<>>))

\* update_graph line 220
UpdateSuccess == Returned(<<"Graph updated successfully.">>)

\* a tool call can start when none is in flight
ToolIdle ==
    \/ call = NoCall
    \/ /\ call.fn \in {"query_slops", "update_graph"}
       /\ call.pc = "done"
       /\ call.n < MaxToolCalls

ToolNumber == IF call = NoCall THEN 1 ELSE call.n + 1

\* query_slops lines 182-191: the request is sent and the call awaits
QueryStart(q) ==
    /\ ToolIdle
    /\ call' = [fn |-> "query_slops", n |-> ToolNumber, pc |-> "await", request |-> q,
                outcome |-> "pending", body |-> NoBody, result |-> NoResult]
    /\ UNCHANGED pipeVars

\* query_slops lines 191-200: the response, or the failure of the request
QueryEnd ==
    /\ call.fn = "query_slops"
    /\ call.pc = "await"
    /\ \/ \E body \in ResponseBodies :
             call' = [call EXCEPT !.pc = "done", !.outcome = "2xx", !.body = body,
                                  !.result = QueryParsed(body)]
       \/ \E kind \in SyncFailureKinds : \E msg \in ExcStr(kind) :
             call' = [call EXCEPT !.pc = "done", !.outcome = kind,
                                  !.result = ToolFailed("Query", kind, msg)]
    /\ UNCHANGED pipeVars

\* update_graph lines 212-218
UpdateStart(u) ==
    /\ ToolIdle
    /\ call' = [fn |-> "update_graph", n |-> ToolNumber, pc |-> "await", request |-> u,
                outcome |-> "pending", body |-> NoBody, result |-> NoResult]
    /\ UNCHANGED pipeVars

\* update_graph lines 218-222.  The store has applied an update it answered
\* with 2xx; after a timeout it may or may not have applied it.
UpdateEnd ==
    /\ call.fn = "update_graph"
    /\ call.pc = "await"
    /\ \/ /\ call' = [call EXCEPT !.pc = "done", !.outcome = "2xx",
                                  !.result = UpdateSuccess]
          /\ store' = store \cup {call.request}
       \/ \E kind \in SyncFailureKinds : \E msg \in ExcStr(kind) :
             /\ call' = [call EXCEPT !.pc = "done", !.outcome = kind,
                                     !.result = ToolFailed("Update", kind, msg)]
             /\ store' \in (IF kind = "timeout"
                            THEN {store, store \cup {call.request}}
                            ELSE {store})
    /\ UNCHANGED <<repo, loop, pc, slop_id, tags, github_url, git_msg, entities,
                   payload, result, trace, files, staged, commits, pushed>>

ToolsNext ==
    \/ \E q \in Queries : QueryStart(q)
    \/ QueryEnd
    \/ \E u \in Updates : UpdateStart(u)
    \/ UpdateEnd

SpecTools == FnInit /\ [][ToolsNext]_vars

(* ------------------------------ claims -------------------------------- *)

\* the external operations of one publish, in the order of the code
OpOrder == <<"ensure_repo_exists", "write_text", "git add", "git commit", "git push",
             "git rev-parse", "extract_entities", "build_rdf_graph", "http post">>

\* operation i of publish p reported success.  The commit-hash lookup is no
\* stage of its own: its failure is not reported, the fallback URL is used.
ReportedSuccess(p, i) ==
    \/ trace[p][i].out \in {"ok", "2xx"}
    \/ trace[p][i].op = "git rev-parse" /\ trace[p][i].out = "CalledProcessError"

\* publish p wrote its file
Wrote(p) == \E i \in 1..Len(trace[p]) :
                trace[p][i].op = "write_text" /\ trace[p][i].out = "ok"

\* publish p ended at a failing operation
Failed(p) ==
    /\ pc[p] = "done"
    /\ ~ReportedSuccess(p, Len(trace[p]))

\* C1: the operations of a publish follow the fixed order repo check, file
\* write, git add/commit/push, hash lookup, extraction, graph build, update
\* request; an operation is performed only if every earlier one reported
\* success, and a publish that is still running has no failed operation.
C1_HaltsOnFirstFailure ==
    \A p \in Publishes :
        /\ Len(trace[p]) <= Len(OpOrder)
        /\ \A i \in 1..Len(trace[p]) :
              /\ trace[p][i].op = OpOrder[i]
              /\ i < Len(trace[p]) => ReportedSuccess(p, i)
        /\ (pc[p] \notin {"done", "await"} /\ trace[p] # <<>>)
              => ReportedSuccess(p, Len(trace[p]))

\* C1 witness: a publish ended at a failed git push, and neither the NER
\* engine nor the store was called
C1_Witness ==
    \E p \in Publishes :
        /\ pc[p] = "done"
        /\ Len(trace[p]) = 5
        /\ trace[p][5] = [op |-> "git push", out |-> "CalledProcessError"]

\* C2 (as claimed): a result returned for a failed publish contains the id
\* and the file name once the file is written, and the document URL once it
\* is known.
C2_FailureCarriesArtifacts ==
    \A p \in Publishes :
        (Failed(p) /\ result[p].kind = "returned") =>
            /\ result[p].text # NoText
            /\ Wrote(p) => /\ Contains(result[p].text, IdPrefix(slop_id[p]))
                           /\ Contains(result[p].text, Filename(slop_id[p]))
            /\ github_url[p] # NoText => Contains(result[p].text, github_url[p])

\* C3: a step of a publish that has written its file leaves that file as it
\* is, keeps every commit of the branch and takes nothing back from the remote.
C3_NoRollback ==
    [][\A p \in Publishes :
          (Wrote(p) /\ pc'[p] # pc[p]) =>
              /\ files'[Filename(slop_id[p])] = files[Filename(slop_id[p])]
              /\ Len(commits') >= Len(commits)
              /\ SubSeq(commits', 1, Len(commits)) = commits
              /\ pushed' >= pushed]_vars

\* C3 witness: a publish wrote and committed, then failed, and its file and
\* commit are still there
C3_Witness ==
    \E p \in Publishes :
        /\ Failed(p)
        /\ Len(trace[p]) > 5
        /\ files[Filename(slop_id[p])] = FullContentOf(p)
        /\ \E i \in 1..Len(commits) : commits[i].by = p

\* C4: no operation occurs twice in one publish.
C4_NoRetry ==
    \A p \in Publishes :
        \A i \in 1..Len(trace[p]) : \A j \in 1..Len(trace[p]) :
            i # j => trace[p][i].op # trace[p][j].op

\* C4 witness: a publish went through every operation once and its update
\* request failed
C4_Witness ==
    \E p \in Publishes :
        /\ Failed(p)
        /\ Len(trace[p]) = Len(OpOrder)

\* C5 (as claimed): every publish ends by returning a result.
C5_AlwaysReturnsResult ==
    \A p \in Publishes : pc[p] = "done" => result[p].kind = "returned"

\* the first line of a result text
FirstLine(text) == Split(text, "\n")[1]

\* the kind of failure the update request of publish p ended with
SyncFailure(p) ==
    IF Failed(p) /\ trace[p][Len(trace[p])].op = "http post"
    THEN trace[p][Len(trace[p])].out
    ELSE "none"

\* C6 (as claimed): two update requests that failed in different ways give
\* different failure lines.
C6_SyncFailuresDistinguishable ==
    \A p \in Publishes : \A q \in Publishes :
        (SyncFailure(p) # "none" /\ SyncFailure(q) # "none"
         /\ SyncFailure(p) # SyncFailure(q))
            => FirstLine(result[p].text) # FirstLine(result[q].text)

\* lowercase(trim(text)), the normalization the claim names
LowerTrim(text) == Lower(Strip(text))

C8_UrlAtOwnCommit ==
    \A p \in Publishes :
        github_url[p] # NoText =>
            \E i \in 1..Len(commits) :
                /\ commits[i].by = p
                /\ github_url[p] = BlobUrl(GithubRepo, commits[i].hash,
                                           Filename(slop_id[p]))

\* C9 (as claimed): two publishes with distinct slop ids write files of
\* distinct names.
C9_DistinctFileNames ==
    \A p \in Publishes : \A q \in Publishes :
        (p # q /\ Wrote(p) /\ Wrote(q) /\ slop_id[p] # slop_id[q])
            => Filename(slop_id[p]) # Filename(slop_id[q])

\* the graph URI the claim names, from the inputs of the call
ExpectedGraphUri(repo_coords, metadata) ==
    <<"https:", "/", "/", "slop.at", "/", "graph", "/">>
    \o (IF "author" \in DOMAIN metadata THEN metadata["author"] ELSE <<"unknown">>)
    \o <<"/">> \o Split(repo_coords, "/")[2] \o <<"/">>
    \o (IF "slop_id" \in DOMAIN metadata THEN metadata["slop_id"] ELSE <<"unknown">>)

\* C10: every statement of one build_rdf_graph call is in the graph
\* {base}/graph/{author}/{repo_name}/{slop_id} of that call, and that graph
\* URI is neither subject nor object of any of them.
C10_OneGraphNeverATerm ==
    call.fn = "build_rdf_graph" =>
        LET g == NamedNode(ExpectedGraphUri(call.repo_coords, call.metadata))
            quads == call.out.quads
        IN  /\ call.out.graph_uri = g.value
            /\ \A i \in 1..Len(quads) :
                  /\ quads[i].g = g
                  /\ quads[i].s # g
                  /\ quads[i].o # g

\* C10 witness: a build with metadata and entities returned statements
C10_Witness ==
    /\ call.fn = "build_rdf_graph"
    /\ Len(call.entities) >= 2
    /\ "slop_id" \in DOMAIN call.metadata
    /\ Len(call.out.quads) > 10

\* the newline characters of a text that lie before a 0-based offset
NewlinesBefore(text, offset) ==
    { i \in 1..Len(text) : i <= offset /\ text[i] = "\n" }

\* C12: char_to_line gives 1 + the number of newlines before the offset; a
\* negative offset gives line 1 and an offset at or beyond the end gives the
\* number of newlines + 1; offset 0 gives 1, offset len(text) gives
\* newlines + 1, and the line of the next offset is never smaller.
C12_LineOfOffset ==
    call.fn = "char_to_line" =>
        LET all == Cardinality(NewlinesBefore(call.text, Len(call.text)))
        IN  /\ call.line = 1 + Cardinality(NewlinesBefore(call.text, call.char_pos))
            /\ call.char_pos < 0 => call.line = 1
            /\ call.char_pos >= Len(call.text) => call.line = all + 1
            /\ call.line_zero = 1
            /\ call.line_len = all + 1
            /\ call.line <= call.line_next

\* C12 witness: an offset inside a text, with a newline before it and one
\* at or after it
C12_Witness ==
    /\ call.fn = "char_to_line"
    /\ call.char_pos > 0
    /\ call.char_pos < Len(call.text)
    /\ call.line = 2
    /\ call.line_len = 3

\* C13 (as claimed): every mention extract_entities returns carries no
\* invalid span: the line bounds it has satisfy 1 <= line_start <= line_end,
\* also when the NER result left out the start or the end offset.
C13_SpanValid ==
    call.fn = "extract_entities" =>
        \A i \in 1..Len(call.out) :
            LET m == call.out[i]
            IN  ("line_start" \in DOMAIN m /\ "line_end" \in DOMAIN m)
                    => (1 <= m.line_start /\ m.line_start <= m.line_end)

\* the statements of a build with subject s and predicate slop:<name>
SlopStatements(quads, s, name) ==
    { k \in 1..Len(quads) :
        quads[k].s = s /\ quads[k].p = NamedNode(SLOP \o <<name>>) }

\* the source anchor the claim names for a document and two line bounds
Anchor(document_uri, line_start, line_end) ==
    IF line_start = line_end
    THEN document_uri \o <<"#L">> \o IntStr(line_start)
    ELSE document_uri \o <<"#L">> \o IntStr(line_start) \o <<"-L">> \o IntStr(line_end)

\* C14 (as claimed): for each entity of a build, the line-start, line-end
\* and source-anchor statements are there all three, with the anchor
\* {document}#L{start} or {document}#L{start}-L{end}, when the entity has
\* both line bounds, and none of them is there when a bound is absent.
C14_SpanAllOrNothing ==
    call.fn = "build_rdf_graph" =>
        \A i \in 1..Len(call.entities) :
            LET e == call.entities[i]
                quads == call.out.quads
                s == NamedNode(create_entity_uri(e.text))
                starts == SlopStatements(quads, s, "lineStart")
                ends == SlopStatements(quads, s, "lineEnd")
                anchors == SlopStatements(quads, s, "sourceUrl")
            IN  IF "line_start" \in DOMAIN e /\ "line_end" \in DOMAIN e
                THEN /\ \E k \in starts : quads[k].o.value = IntStr(e.line_start)
                     /\ \E k \in ends : quads[k].o.value = IntStr(e.line_end)
                     /\ \E k \in anchors :
                           quads[k].o = NamedNode(Anchor(call.github_url,
                                                         e.line_start, e.line_end))
                ELSE (\A j \in 1..Len(call.entities) :
                         j # i => create_entity_uri(call.entities[j].text) # s.value)
                     => (starts = {} /\ ends = {} /\ anchors = {})

\* the entity URI of the i-th entity of the last build
EntityUriOf(i) == NamedNode(create_entity_uri(call.entities[i].text))

\* the statements of the last build with subject s and predicate p
Statements(s, p) ==
    { k \in 1..Len(call.out.quads) :
        call.out.quads[k].s = s /\ call.out.quads[k].p = NamedNode(p) }

\* the statements of the last build that are about its i-th entity
StatementsOf(i) ==
    { k \in 1..Len(call.out.quads) :
        call.out.quads[k].s = EntityUriOf(i) \/ call.out.quads[k].o = EntityUriOf(i) }

\* what the claim says of a build of N entities
EntityStatementsAsClaimed ==
    LET quads == call.out.quads
        ents == call.entities
        doc == NamedNode(call.github_url)
        mentions == SLOP \o <<"mentions">>
        subjects == { quads[k].s : k \in 1..Len(quads) } \ {doc}
        docFacts == { k \in 1..Len(quads) : quads[k].s = doc /\ quads[k].p # NamedNode(mentions) }
    IN  /\ Cardinality(subjects) = Len(ents)
        /\ \A i \in 1..Len(ents) :
              LET s == EntityUriOf(i)
                  types == Statements(s, RDF \o <<"type">>)
                  names == Statements(s, SCHEMA \o <<"name">>)
                  confs == Statements(s, SLOP \o <<"confidence">>)
                  links == { k \in Statements(doc, mentions) : quads[k].o = s }
              IN  /\ Cardinality(types) = 1
                  /\ \A k \in types : quads[k].o = NamedNode(KNOW \o ents[i].label)
                  /\ Cardinality(names) = 1
                  /\ \A k \in names : quads[k].o = Literal(ents[i].text)
                  /\ Cardinality(confs) = 1
                  /\ \A k \in confs :
                        quads[k].o = TypedLiteral(FloatStr(ents[i].score), XSD \o <<"float">>)
                  /\ Cardinality(links) = 1
        /\ docFacts = 1..Cardinality(docFacts)
        /\ Cardinality({ k \in docFacts :
                            /\ quads[k].p = NamedNode(RDF \o <<"type">>)
                            /\ quads[k].o = NamedNode(SLOP \o <<"Slop">>) }) = 1
        /\ \A k \in docFacts : \A i \in 1..Len(ents) : \A k2 \in StatementsOf(i) : k < k2
        /\ \A i \in 1..Len(ents) : \A j \in 1..Len(ents) :
              i < j => \A k \in StatementsOf(i) : \A k2 \in StatementsOf(j) : k < k2

ToolDone(tool) == call.fn = tool /\ call.pc = "done"

\* the result of the tool call is an error string
ErrorResult ==
    /\ call.result.kind = "returned"
    /\ \/ StartsWith(call.result.text, <<"Query", " failed: ">>)
       \/ StartsWith(call.result.text, <<"Update", " failed: ">>)

\* the body of the response is a results document: a JSON object whose
\* "results", if present, is an object
ResultsDocument ==
    /\ call.body.json
    /\ "not_a_dict" \notin DOMAIN call.body.value
    /\ "results" \in DOMAIN call.body.value
          => "not_a_dict" \notin DOMAIN call.body.value.results

\* the binding rows of a results document
BindingRows ==
    IF "results" \in DOMAIN call.body.value
       /\ "bindings" \in DOMAIN call.body.value.results
    THEN call.body.value.results.bindings
    ELSE <<>>

\* the result of the query tool shows the rows and not the envelope
RowsWithoutEnvelope ==
    /\ call.result.kind = "returned"
    /\ \A i \in 1..Len(BindingRows) : Contains(call.result.text, BindingRows[i].s)
    /\ ~Contains(call.result.text, <<"bindings">>)
    /\ ~Contains(call.result.text, <<"results">>)

\* any outcome of the request other than a 2xx response gives an error string
OtherOutcomeIsErrorString ==
    ((ToolDone("query_slops") \/ ToolDone("update_graph")) /\ call.outcome # "2xx")
        => ErrorResult

VcsReportedSuccess(p) ==
    \E i \in 1..Len(trace[p]) : trace[p][i] = [op |-> "git push", out |-> "ok"]

\* commit_and_push of publish p failed at git add, git commit or git push
VcsReportedFailure(p) ==
    \E i \in 1..Len(trace[p]) :
        /\ trace[p][i].op \in {"git add", "git commit", "git push"}
        /\ trace[p][i].out \in {"CalledProcessError", "FileNotFoundError"}

\* the file publish p wrote is in a commit the remote has
InRemote(p) ==
    \E i \in 1..pushed : commits[i].tree[Filename(slop_id[p])] = FullContentOf(p)

\* C17 (as claimed): the git stage of a publish reported success exactly if
\* the file of that publish is in a pushed commit; the file of a publish
\* whose git stage failed is never in the remote repository; and a commit
\* holds only the file of the publish that made it.
C17_PushedIffReported ==
    /\ \A p \in Publishes :
          Wrote(p) => /\ VcsReportedSuccess(p) <=> InRemote(p)
                      /\ VcsReportedFailure(p) => ~InRemote(p)
    /\ \A i \in 1..Len(commits) : \A f \in Filenames :
          commits[i].tree[f] # NoText =>
              /\ f = Filename(slop_id[commits[i].by])
              /\ commits[i].tree[f] = FullContentOf(commits[i].by)

====
